---------------------------- MODULE Spec2Model ----------------------------
(***************************************************************************)
(* The TripIt schema registry of examples/tripit/tripit_entity_types.py:   *)
(* thirty pydantic shapes, the tables ENTITY_TYPES and EDGE_TYPES that    *)
(* name them, and the compatibility table EDGE_TYPE_MAP, together with    *)
(* the consumers that read the three tables and instantiate the shapes.   *)
(***************************************************************************)
EXTENDS Integers, Sequences, FiniteSets, TLC

\* ------------------------------------------------------------------------
\* Bounds of the model
\* ------------------------------------------------------------------------

\* number of concurrent consumers of the tables
NumConsumers == 2

\* lookups each consumer performs before it stops
MaxLookups == 2

Consumers == 1..NumConsumers

\* ------------------------------------------------------------------------
\* Python values and pydantic field declarations
\* ------------------------------------------------------------------------

\* the Python value None
None == [type |-> "NoneType"]

\* the Python value ... (pydantic's marker of a required field)
Ellipsis == [type |-> "ellipsis"]

\* a Python value of the primitive type t; only its type matters to validation
PyValue(t) == [type |-> t]

\* Field(default, description=...): required exactly when default is ...
Field(default) == [required |-> default = Ellipsis, default |-> default]

\* the declaration  name: t | None = Field(None, description=...)
OptionalAttr(t) == [type |-> t, nullable |-> TRUE, field |-> Field(None)]

\* a BaseModel subclass whose body declares no attribute
NoAttrs == [a \in {} |-> OptionalAttr("str")]

\* ------------------------------------------------------------------------
\* Entity and edge shapes (BaseModel subclasses): attribute name -> declaration
\* ------------------------------------------------------------------------
Trip ==
    [start_date |-> OptionalAttr("str"),
     end_date |-> OptionalAttr("str"),
     destination |-> OptionalAttr("str"),
     is_private |-> OptionalAttr("bool")]

\* Flight with flight_number declared as  flight_number: str = Field(...)
Flight_required ==
    [airline_code |-> OptionalAttr("str"),
     flight_number |-> [type |-> "str", nullable |-> FALSE, field |-> Field(Ellipsis)],
     departure_airport |-> OptionalAttr("str"),
     arrival_airport |-> OptionalAttr("str"),
     departure_time |-> OptionalAttr("str"),
     arrival_time |-> OptionalAttr("str"),
     service_class |-> OptionalAttr("str"),
     aircraft_type |-> OptionalAttr("str"),
     seat_assignment |-> OptionalAttr("str"),
     confirmation_number |-> OptionalAttr("str"),
     record_locator |-> OptionalAttr("str")]

Flight ==
    [airline_code |-> OptionalAttr("str"),
     flight_number |-> OptionalAttr("str"),
     departure_airport |-> OptionalAttr("str"),
     arrival_airport |-> OptionalAttr("str"),
     departure_time |-> OptionalAttr("str"),
     arrival_time |-> OptionalAttr("str"),
     service_class |-> OptionalAttr("str"),
     aircraft_type |-> OptionalAttr("str"),
     seat_assignment |-> OptionalAttr("str"),
     confirmation_number |-> OptionalAttr("str"),
     record_locator |-> OptionalAttr("str")]

Lodging ==
    [check_in_date |-> OptionalAttr("str"),
     check_out_date |-> OptionalAttr("str"),
     room_type |-> OptionalAttr("str"),
     number_of_rooms |-> OptionalAttr("str"),
     number_of_guests |-> OptionalAttr("str"),
     confirmation_number |-> OptionalAttr("str")]

CarRental ==
    [pickup_date |-> OptionalAttr("str"),
     dropoff_date |-> OptionalAttr("str"),
     car_type |-> OptionalAttr("str"),
     car_description |-> OptionalAttr("str"),
     pickup_location |-> OptionalAttr("str"),
     dropoff_location |-> OptionalAttr("str"),
     confirmation_number |-> OptionalAttr("str")]

RailJourney ==
    [carrier |-> OptionalAttr("str"),
     train_number |-> OptionalAttr("str"),
     departure_station |-> OptionalAttr("str"),
     arrival_station |-> OptionalAttr("str"),
     departure_time |-> OptionalAttr("str"),
     arrival_time |-> OptionalAttr("str"),
     service_class |-> OptionalAttr("str"),
     seat_assignment |-> OptionalAttr("str"),
     confirmation_number |-> OptionalAttr("str")]

Cruise ==
    [ship_name |-> OptionalAttr("str"),
     cabin_number |-> OptionalAttr("str"),
     cabin_type |-> OptionalAttr("str"),
     departure_date |-> OptionalAttr("str"),
     return_date |-> OptionalAttr("str"),
     departure_port |-> OptionalAttr("str"),
     confirmation_number |-> OptionalAttr("str")]

GroundTransport ==
    [transport_type |-> OptionalAttr("str"),
     carrier |-> OptionalAttr("str"),
     pickup_location |-> OptionalAttr("str"),
     dropoff_location |-> OptionalAttr("str"),
     pickup_time |-> OptionalAttr("str"),
     confirmation_number |-> OptionalAttr("str")]

Restaurant ==
    [cuisine |-> OptionalAttr("str"),
     reservation_time |-> OptionalAttr("str"),
     party_size |-> OptionalAttr("str"),
     price_range |-> OptionalAttr("str"),
     dress_code |-> OptionalAttr("str"),
     confirmation_number |-> OptionalAttr("str")]

Activity ==
    [activity_type |-> OptionalAttr("str"),
     start_time |-> OptionalAttr("str"),
     end_time |-> OptionalAttr("str"),
     venue |-> OptionalAttr("str"),
     confirmation_number |-> OptionalAttr("str")]

Traveler ==
    [first_name |-> OptionalAttr("str"),
     last_name |-> OptionalAttr("str"),
     email |-> OptionalAttr("str"),
     frequent_traveler_number |-> OptionalAttr("str"),
     meal_preference |-> OptionalAttr("str"),
     seat_preference |-> OptionalAttr("str")]

Airport ==
    [iata_code |-> OptionalAttr("str"),
     city |-> OptionalAttr("str"),
     country |-> OptionalAttr("str"),
     latitude |-> OptionalAttr("float"),
     longitude |-> OptionalAttr("float")]

City ==
    [country |-> OptionalAttr("str"),
     state_or_region |-> OptionalAttr("str"),
     timezone |-> OptionalAttr("str")]

Venue ==
    [venue_type |-> OptionalAttr("str"),
     address |-> OptionalAttr("str"),
     phone |-> OptionalAttr("str"),
     url |-> OptionalAttr("str"),
     latitude |-> OptionalAttr("float"),
     longitude |-> OptionalAttr("float")]

Airline ==
    [iata_code |-> OptionalAttr("str"),
     alliance |-> OptionalAttr("str")]

TransportProvider ==
    [provider_type |-> OptionalAttr("str"),
     phone |-> OptionalAttr("str"),
     url |-> OptionalAttr("str")]

LoyaltyProgram ==
    [program_type |-> OptionalAttr("str"),
     balance |-> OptionalAttr("str"),
     elite_status |-> OptionalAttr("str")]

PartOfTrip == NoAttrs

DepartsFrom ==
    [scheduled_time |-> OptionalAttr("str"),
     terminal |-> OptionalAttr("str"),
     gate |-> OptionalAttr("str")]

ArrivesAt ==
    [scheduled_time |-> OptionalAttr("str"),
     terminal |-> OptionalAttr("str"),
     gate |-> OptionalAttr("str"),
     baggage_claim |-> OptionalAttr("str")]

LocatedAt == NoAttrs

LocatedIn == NoAttrs

OperatedBy ==
    [operating_code |-> OptionalAttr("str")]

BookedWith ==
    [booking_site |-> OptionalAttr("str"),
     booking_reference |-> OptionalAttr("str"),
     booking_date |-> OptionalAttr("str"),
     total_cost |-> OptionalAttr("str")]

TravelerOn ==
    [role |-> OptionalAttr("str"),
     ticket_number |-> OptionalAttr("str")]

ConnectsTo ==
    [connection_time |-> OptionalAttr("str"),
     connection_airport |-> OptionalAttr("str")]

MemberOf ==
    [member_number |-> OptionalAttr("str"),
     elite_status |-> OptionalAttr("str")]

OfferedBy == NoAttrs

DestinationOf ==
    [role |-> OptionalAttr("str")]

PortOfCall ==
    [arrival_date |-> OptionalAttr("str"),
     departure_date |-> OptionalAttr("str")]

InvitedTo ==
    [is_read_only |-> OptionalAttr("bool"),
     is_traveler |-> OptionalAttr("bool")]

\* the module namespace: class name -> the class bound to it
Classes ==
    [Trip |-> Trip,
     Flight |-> Flight,
     Lodging |-> Lodging,
     CarRental |-> CarRental,
     RailJourney |-> RailJourney,
     Cruise |-> Cruise,
     GroundTransport |-> GroundTransport,
     Restaurant |-> Restaurant,
     Activity |-> Activity,
     Traveler |-> Traveler,
     Airport |-> Airport,
     City |-> City,
     Venue |-> Venue,
     Airline |-> Airline,
     TransportProvider |-> TransportProvider,
     LoyaltyProgram |-> LoyaltyProgram,
     PartOfTrip |-> PartOfTrip,
     DepartsFrom |-> DepartsFrom,
     ArrivesAt |-> ArrivesAt,
     LocatedAt |-> LocatedAt,
     LocatedIn |-> LocatedIn,
     OperatedBy |-> OperatedBy,
     BookedWith |-> BookedWith,
     TravelerOn |-> TravelerOn,
     ConnectsTo |-> ConnectsTo,
     MemberOf |-> MemberOf,
     OfferedBy |-> OfferedBy,
     DestinationOf |-> DestinationOf,
     PortOfCall |-> PortOfCall,
     InvitedTo |-> InvitedTo]

\* ------------------------------------------------------------------------
\* Configuration dictionaries
\* ------------------------------------------------------------------------

\* a dict display {k1: v1, k2: v2, ...}: the last item with a key sets its value
dict(items) ==
    [k \in {items[i][1] : i \in DOMAIN items} |->
        items[CHOOSE i \in DOMAIN items :
                 /\ items[i][1] = k
                 /\ \A j \in DOMAIN items : items[j][1] = k => j <= i][2]]

\* items with the item of key k replaced by item
replace_item(items, k, item) ==
    [i \in DOMAIN items |-> IF items[i][1] = k THEN item ELSE items[i]]

\* items without the item of key k
remove_item(items, k) == SelectSeq(items, LAMBDA e : e[1] # k)

\* the items of the ENTITY_TYPES display: <<name, class>>
ENTITY_TYPES_items ==
    <<
       <<"Trip", "Trip">>,
       <<"Flight", "Flight">>,
       <<"Lodging", "Lodging">>,
       <<"CarRental", "CarRental">>,
       <<"RailJourney", "RailJourney">>,
       <<"Cruise", "Cruise">>,
       <<"GroundTransport", "GroundTransport">>,
       <<"Restaurant", "Restaurant">>,
       <<"Activity", "Activity">>,
       <<"Traveler", "Traveler">>,
       <<"Airport", "Airport">>,
       <<"City", "City">>,
       <<"Venue", "Venue">>,
       <<"Airline", "Airline">>,
       <<"TransportProvider", "TransportProvider">>,
       <<"LoyaltyProgram", "LoyaltyProgram">>
    >>

\* ENTITY_TYPES with the Airline item keyed 'Airport' a second time
ENTITY_TYPES_duplicate_key ==
    dict(replace_item(ENTITY_TYPES_items, "Airline", <<"Airport", "Airline">>))

ENTITY_TYPES == dict(ENTITY_TYPES_items)

\* the items of the EDGE_TYPES display: <<name, class>>
EDGE_TYPES_items ==
    <<
       <<"PART_OF_TRIP", "PartOfTrip">>,
       <<"DEPARTS_FROM", "DepartsFrom">>,
       <<"ARRIVES_AT", "ArrivesAt">>,
       <<"LOCATED_AT", "LocatedAt">>,
       <<"LOCATED_IN", "LocatedIn">>,
       <<"OPERATED_BY", "OperatedBy">>,
       <<"BOOKED_WITH", "BookedWith">>,
       <<"TRAVELER_ON", "TravelerOn">>,
       <<"CONNECTS_TO", "ConnectsTo">>,
       <<"MEMBER_OF", "MemberOf">>,
       <<"OFFERED_BY", "OfferedBy">>,
       <<"DESTINATION_OF", "DestinationOf">>,
       <<"PORT_OF_CALL", "PortOfCall">>,
       <<"INVITED_TO", "InvitedTo">>
    >>

\* EDGE_TYPES without the 'PORT_OF_CALL' item
EDGE_TYPES_no_port_of_call == dict(remove_item(EDGE_TYPES_items, "PORT_OF_CALL"))

EDGE_TYPES == dict(EDGE_TYPES_items)

\* the items of the EDGE_TYPE_MAP display: <<(source, target), [edge names]>>
EDGE_TYPE_MAP_items ==
    <<
       \* -- Trip containment: reservations belong to trips --
       << <<"Flight", "Trip">>, <<"PART_OF_TRIP">> >>,
       << <<"Lodging", "Trip">>, <<"PART_OF_TRIP">> >>,
       << <<"CarRental", "Trip">>, <<"PART_OF_TRIP">> >>,
       << <<"RailJourney", "Trip">>, <<"PART_OF_TRIP">> >>,
       << <<"Cruise", "Trip">>, <<"PART_OF_TRIP">> >>,
       << <<"GroundTransport", "Trip">>, <<"PART_OF_TRIP">> >>,
       << <<"Restaurant", "Trip">>, <<"PART_OF_TRIP">> >>,
       << <<"Activity", "Trip">>, <<"PART_OF_TRIP">> >>,
       \* -- Departure / arrival for transport types --
       << <<"Flight", "Airport">>, <<"DEPARTS_FROM", "ARRIVES_AT">> >>,
       << <<"RailJourney", "Venue">>, <<"DEPARTS_FROM", "ARRIVES_AT">> >>,
       << <<"Cruise", "Venue">>, <<"DEPARTS_FROM", "ARRIVES_AT", "PORT_OF_CALL">> >>,
       << <<"GroundTransport", "Venue">>, <<"DEPARTS_FROM", "ARRIVES_AT">> >>,
       << <<"CarRental", "Venue">>, <<"DEPARTS_FROM", "ARRIVES_AT">> >>,
       \* -- Physical location --
       << <<"Lodging", "Venue">>, <<"LOCATED_AT">> >>,
       << <<"Restaurant", "Venue">>, <<"LOCATED_AT">> >>,
       << <<"Activity", "Venue">>, <<"LOCATED_AT">> >>,
       \* -- Geographic containment --
       << <<"Airport", "City">>, <<"LOCATED_IN">> >>,
       << <<"Venue", "City">>, <<"LOCATED_IN">> >>,
       \* -- Trip destinations --
       << <<"Trip", "City">>, <<"DESTINATION_OF">> >>,
       \* -- Cruise port of call --
       << <<"Cruise", "City">>, <<"PORT_OF_CALL">> >>,
       \* -- Operators / providers --
       << <<"Flight", "Airline">>, <<"OPERATED_BY">> >>,
       << <<"RailJourney", "TransportProvider">>, <<"OPERATED_BY">> >>,
       << <<"Cruise", "TransportProvider">>, <<"OPERATED_BY">> >>,
       << <<"GroundTransport", "TransportProvider">>, <<"OPERATED_BY">> >>,
       << <<"CarRental", "TransportProvider">>, <<"OPERATED_BY">> >>,
       \* -- Booking provenance --
       << <<"Flight", "Entity">>, <<"BOOKED_WITH">> >>,
       << <<"Lodging", "Entity">>, <<"BOOKED_WITH">> >>,
       << <<"CarRental", "Entity">>, <<"BOOKED_WITH">> >>,
       << <<"RailJourney", "Entity">>, <<"BOOKED_WITH">> >>,
       << <<"Cruise", "Entity">>, <<"BOOKED_WITH">> >>,
       << <<"GroundTransport", "Entity">>, <<"BOOKED_WITH">> >>,
       << <<"Restaurant", "Entity">>, <<"BOOKED_WITH">> >>,
       << <<"Activity", "Entity">>, <<"BOOKED_WITH">> >>,
       \* -- Traveler associations --
       << <<"Traveler", "Flight">>, <<"TRAVELER_ON">> >>,
       << <<"Traveler", "Lodging">>, <<"TRAVELER_ON">> >>,
       << <<"Traveler", "CarRental">>, <<"TRAVELER_ON">> >>,
       << <<"Traveler", "RailJourney">>, <<"TRAVELER_ON">> >>,
       << <<"Traveler", "Cruise">>, <<"TRAVELER_ON">> >>,
       << <<"Traveler", "GroundTransport">>, <<"TRAVELER_ON">> >>,
       << <<"Traveler", "Restaurant">>, <<"TRAVELER_ON">> >>,
       << <<"Traveler", "Activity">>, <<"TRAVELER_ON">> >>,
       << <<"Traveler", "Trip">>, <<"INVITED_TO">> >>,
       \* -- Multi-segment connections --
       << <<"Flight", "Flight">>, <<"CONNECTS_TO">> >>,
       << <<"RailJourney", "RailJourney">>, <<"CONNECTS_TO">> >>,
       << <<"GroundTransport", "GroundTransport">>, <<"CONNECTS_TO">> >>,
       \* -- Loyalty programs --
       << <<"Traveler", "LoyaltyProgram">>, <<"MEMBER_OF">> >>,
       << <<"LoyaltyProgram", "Airline">>, <<"OFFERED_BY">> >>,
       << <<"LoyaltyProgram", "TransportProvider">>, <<"OFFERED_BY">> >>
    >>

\* EDGE_TYPE_MAP with ('Lodging', 'Venue') keyed by the undeclared name 'Hotel'
EDGE_TYPE_MAP_undeclared_source ==
    dict(replace_item(EDGE_TYPE_MAP_items, <<"Lodging", "Venue">>,
                      << <<"Hotel", "Venue">>, <<"LOCATED_AT">> >>))

\* EDGE_TYPE_MAP without the ('Activity', 'Trip') item
EDGE_TYPE_MAP_no_activity_trip ==
    dict(remove_item(EDGE_TYPE_MAP_items, <<"Activity", "Trip">>))

\* EDGE_TYPE_MAP without the ('Restaurant', 'Entity') item
EDGE_TYPE_MAP_no_restaurant_entity ==
    dict(remove_item(EDGE_TYPE_MAP_items, <<"Restaurant", "Entity">>))

\* EDGE_TYPE_MAP with ('Traveler', 'Trip') given the list of the other Traveler items
EDGE_TYPE_MAP_traveler_on_trip ==
    dict(replace_item(EDGE_TYPE_MAP_items, <<"Traveler", "Trip">>,
                      << <<"Traveler", "Trip">>, <<"TRAVELER_ON">> >>))

\* EDGE_TYPE_MAP with the two names of ('Flight', 'Airport') in the other order
EDGE_TYPE_MAP_arrival_first ==
    dict(replace_item(EDGE_TYPE_MAP_items, <<"Flight", "Airport">>,
                      << <<"Flight", "Airport">>, <<"ARRIVES_AT", "DEPARTS_FROM">> >>))

\* EDGE_TYPE_MAP with 'CONNECTS_TO' also listed for ('Flight', 'Airport')
EDGE_TYPE_MAP_connects_to_airport ==
    dict(replace_item(EDGE_TYPE_MAP_items, <<"Flight", "Airport">>,
                      << <<"Flight", "Airport">>,
                         <<"DEPARTS_FROM", "ARRIVES_AT", "CONNECTS_TO">> >>))

\* EDGE_TYPE_MAP with ('Cruise', 'City') left with an empty list
EDGE_TYPE_MAP_empty_list ==
    dict(replace_item(EDGE_TYPE_MAP_items, <<"Cruise", "City">>,
                      << <<"Cruise", "City">>, <<>> >>))

\* EDGE_TYPE_MAP with 'BOOKED_WITH' also listed for ('Flight', 'Airline')
EDGE_TYPE_MAP_booked_with_airline ==
    dict(replace_item(EDGE_TYPE_MAP_items, <<"Flight", "Airline">>,
                      << <<"Flight", "Airline">>, <<"OPERATED_BY", "BOOKED_WITH">> >>))

EDGE_TYPE_MAP == dict(EDGE_TYPE_MAP_items)

\* ------------------------------------------------------------------------
\* Reading a table
\* ------------------------------------------------------------------------

\* d[k] on a defaultdict(list): a missing key is inserted with an empty list
defaultdict_get(d, k) ==
    [dict  |-> IF k \in DOMAIN d THEN d
               ELSE [x \in DOMAIN d \cup {k} |-> IF x = k THEN <<>> ELSE d[x]],
     found |-> k \in DOMAIN d,
     value |-> IF k \in DOMAIN d THEN d[k] ELSE <<>>]

\* d.get(k) on a plain dict: the dict as the call leaves it, and what it returns
dict_get(d, k) ==
    [dict  |-> d,
     found |-> k \in DOMAIN d,
     value |-> IF k \in DOMAIN d THEN d[k] ELSE None]

\* ------------------------------------------------------------------------
\* Instantiating a shape
\* ------------------------------------------------------------------------

\* pydantic's check of one attribute against its declaration
validate_attr(decl, present, v) ==
    IF ~present THEN ~decl.field.required
    ELSE IF v = None THEN decl.nullable
    ELSE v.type = decl.type

\* BaseModel.__init__(**kwargs) of the class named name with declarations cls
model_validate(name, cls, kwargs) ==
    IF \A a \in DOMAIN cls :
           validate_attr(cls[a], a \in DOMAIN kwargs,
                         IF a \in DOMAIN kwargs THEN kwargs[a] ELSE None)
    THEN [ok |-> TRUE, cls |-> name,
          values |-> [a \in DOMAIN cls |->
                        IF a \in DOMAIN kwargs THEN kwargs[a]
                        ELSE cls[a].field.default]]
    ELSE [ok |-> FALSE, cls |-> name]

\* ------------------------------------------------------------------------
\* State
\* ------------------------------------------------------------------------

VARIABLES
    entity_types,   \* the dict bound to ENTITY_TYPES
    edge_types,     \* the dict bound to EDGE_TYPES
    edge_type_map,  \* the dict bound to EDGE_TYPE_MAP
    last,           \* the most recent lookup and what it returned
    lookups,        \* lookups[c]: lookups consumer c has completed
    input,          \* the shape and keyword arguments of an instantiation
    instance        \* what the instantiation produced

tables == <<entity_types, edge_types, edge_type_map>>

vars == <<entity_types, edge_types, edge_type_map, last, lookups, input, instance>>

NoLookup == [table |-> "none"]

NoInput == [table |-> "none"]

NoInstance == [ok |-> FALSE, cls |-> "none"]

\* names a consumer asks for: the declared entity names and the wildcard
TypeNames == {ENTITY_TYPES_items[i][1] : i \in DOMAIN ENTITY_TYPES_items} \cup {"Entity"}

\* pairs a consumer asks for: the declared pairs, their reversals, the
\* same-type pairs, and every name paired with Trip and with the wildcard
MapKeys ==
    LET declared == {EDGE_TYPE_MAP_items[i][1] : i \in DOMAIN EDGE_TYPE_MAP_items} IN
    { k \in TypeNames \X TypeNames :
         \/ k \in declared
         \/ <<k[2], k[1]>> \in declared
         \/ k[1] = k[2]
         \/ k[2] \in {"Trip", "Entity"} }

\* relationship names a consumer asks for: the declared ones and an undeclared one
EdgeNames == {EDGE_TYPES_items[i][1] : i \in DOMAIN EDGE_TYPES_items} \cup {"RELATES_TO"}

\* the state once the module has been imported
ModuleLoaded ==
    /\ entity_types = ENTITY_TYPES
    /\ edge_types = EDGE_TYPES
    /\ edge_type_map = EDGE_TYPE_MAP
    /\ last = NoLookup
    /\ lookups = [c \in Consumers |-> 0]
    /\ instance = NoInstance

Init ==
    /\ ModuleLoaded
    /\ input = NoInput

\* ------------------------------------------------------------------------
\* Consumers reading the tables
\* ------------------------------------------------------------------------

Looked(c, table, key, r) ==
    /\ last' = [table |-> table, key |-> key, found |-> r.found, value |-> r.value]
    /\ lookups' = [lookups EXCEPT ![c] = @ + 1]
    /\ UNCHANGED <<input, instance>>

\* consumer c reads entity_types[name]
LookupEntityType(c) ==
    /\ lookups[c] < MaxLookups
    /\ \E name \in TypeNames :
          LET r == dict_get(entity_types, name) IN
          /\ entity_types' = r.dict
          /\ Looked(c, "ENTITY_TYPES", name, r)
    /\ UNCHANGED <<edge_types, edge_type_map>>

\* consumer c reads edge_types[name]
LookupEdgeType(c) ==
    /\ lookups[c] < MaxLookups
    /\ \E name \in EdgeNames :
          LET r == dict_get(edge_types, name) IN
          /\ edge_types' = r.dict
          /\ Looked(c, "EDGE_TYPES", name, r)
    /\ UNCHANGED <<entity_types, edge_type_map>>

\* consumer c reads edge_type_map[(source, target)]
LookupEdgeTypeMap(c) ==
    /\ lookups[c] < MaxLookups
    /\ \E key \in MapKeys :
          LET r == dict_get(edge_type_map, key) IN
          /\ edge_type_map' = r.dict
          /\ Looked(c, "EDGE_TYPE_MAP", key, r)
    /\ UNCHANGED <<entity_types, edge_types>>

Next ==
    \E c \in Consumers :
        \/ LookupEntityType(c)
        \/ LookupEdgeType(c)
        \/ LookupEdgeTypeMap(c)

Spec == Init /\ [][Next]_vars

\* ------------------------------------------------------------------------
\* Instantiating the shapes the tables name
\* ------------------------------------------------------------------------

\* a value the declared type t accepts
WellTyped(t) == PyValue(t)

\* a value no declared type accepts
IllTyped(t) == PyValue("list")

\* keyword arguments naming exactly the attributes in S
Kwargs(cls, S, typed) ==
    [a \in S |-> IF typed THEN WellTyped(cls[a].type) ELSE IllTyped(cls[a].type)]

\* the table of a given name as it is now
Table(t) == IF t = "ENTITY_TYPES" THEN entity_types ELSE edge_types

Inputs ==
    UNION { UNION { { [table |-> t, name |-> n, kwargs |-> Kwargs(Classes[Table(t)[n]], S, typed)] :
                        S \in SUBSET DOMAIN Classes[Table(t)[n]], typed \in BOOLEAN } :
                    n \in DOMAIN Table(t) } :
            t \in {"ENTITY_TYPES", "EDGE_TYPES"} }

InitShapes ==
    /\ ModuleLoaded
    /\ input \in Inputs

\* a consumer calls  TABLE[name](**kwargs)
Instantiate ==
    /\ input # NoInput
    /\ instance = NoInstance
    /\ LET name == Table(input.table)[input.name] IN
       instance' = model_validate(name, Classes[name], input.kwargs)
    /\ UNCHANGED <<entity_types, edge_types, edge_type_map, last, lookups, input>>

NextShapes == Instantiate

SpecShapes == InitShapes /\ [][NextShapes]_vars

\* ------------------------------------------------------------------------
\* Properties
\* ------------------------------------------------------------------------

\* name occurs in the list names
Contains(names, name) == \E i \in DOMAIN names : names[i] = name

\* the most recent lookup asked edge_type_map for key and found it
FoundPair(key) ==
    /\ last.table = "EDGE_TYPE_MAP"
    /\ last.key = key
    /\ last.found

\* the reservations/activities domain of the entity types
ReservationTypes ==
    {"Trip", "Flight", "Lodging", "CarRental", "RailJourney", "Cruise",
     "GroundTransport", "Restaurant", "Activity"}

\* C1: every relationship-type name in any value list of EDGE_TYPE_MAP is a
\* key of EDGE_TYPES.
C1_EdgeNamesDeclared ==
    \A k \in DOMAIN edge_type_map :
        \A i \in DOMAIN edge_type_map[k] :
            edge_type_map[k][i] \in DOMAIN edge_types

\* a consumer has read a three-name list whose names are all declared
C1_Witness ==
    /\ last.table = "EDGE_TYPE_MAP"
    /\ last.found
    /\ Len(last.value) = 3
    /\ \A i \in 1..3 : dict_get(edge_types, last.value[i]).found

\* C2: both elements of every key of EDGE_TYPE_MAP are keys of ENTITY_TYPES,
\* the only exception being the wildcard name "Entity".
C2_PairNamesDeclared ==
    \A k \in DOMAIN edge_type_map :
        \A i \in 1..2 :
            k[i] \in DOMAIN entity_types \/ k[i] = "Entity"

\* a consumer has read a pair whose source is declared and whose target is
\* the wildcard
C2_Witness ==
    /\ last.table = "EDGE_TYPE_MAP"
    /\ last.found
    /\ last.key[1] \in DOMAIN entity_types
    /\ last.key[2] = "Entity"
    /\ last.key[2] \notin DOMAIN entity_types

\* C3 as stated: every type T of the reservations/activities domain, Trip
\* included, has an entry (T, 'Trip') whose list contains 'PART_OF_TRIP', and
\* ('Flight', 'Trip') yields exactly ['PART_OF_TRIP'].
C3_Original ==
    /\ \A T \in ReservationTypes :
          /\ <<T, "Trip">> \in DOMAIN edge_type_map
          /\ Contains(edge_type_map[<<T, "Trip">>], "PART_OF_TRIP")
    /\ dict_get(edge_type_map, <<"Flight", "Trip">>).value = <<"PART_OF_TRIP">>

\* C3 as amended: every type T of the reservations/activities domain other
\* than Trip itself has an entry (T, 'Trip') whose list contains
\* 'PART_OF_TRIP', and ('Flight', 'Trip') yields exactly ['PART_OF_TRIP'].
C3_Containment ==
    /\ \A T \in ReservationTypes \ {"Trip"} :
          /\ <<T, "Trip">> \in DOMAIN edge_type_map
          /\ Contains(edge_type_map[<<T, "Trip">>], "PART_OF_TRIP")
    /\ dict_get(edge_type_map, <<"Flight", "Trip">>).found
    /\ dict_get(edge_type_map, <<"Flight", "Trip">>).value = <<"PART_OF_TRIP">>

\* a consumer has read ('Flight', 'Trip') and got ['PART_OF_TRIP']
C3_Witness ==
    /\ FoundPair(<<"Flight", "Trip">>)
    /\ last.value = <<"PART_OF_TRIP">>

\* C4 as stated: every type T of the reservations/activities domain, Trip
\* included, has an entry (T, 'Entity') whose list contains 'BOOKED_WITH'.
C4_Original ==
    \A T \in ReservationTypes :
        /\ <<T, "Entity">> \in DOMAIN edge_type_map
        /\ Contains(edge_type_map[<<T, "Entity">>], "BOOKED_WITH")

\* C4 as amended: every type T of the reservations/activities domain other
\* than Trip has an entry (T, 'Entity') whose list contains 'BOOKED_WITH'.
C4_BookingProvenance ==
    \A T \in ReservationTypes \ {"Trip"} :
        /\ <<T, "Entity">> \in DOMAIN edge_type_map
        /\ Contains(edge_type_map[<<T, "Entity">>], "BOOKED_WITH")

\* a consumer has read ('Cruise', 'Entity') and got a list with 'BOOKED_WITH'
C4_Witness ==
    /\ FoundPair(<<"Cruise", "Entity">>)
    /\ Contains(last.value, "BOOKED_WITH")

\* C5: ('Traveler', R) yields exactly ['TRAVELER_ON'] for each of the eight
\* reservation/activity types R other than Trip; ('Traveler', 'Trip') yields
\* exactly ['INVITED_TO']; 'TRAVELER_ON' is not permitted between Traveler
\* and Trip, and 'INVITED_TO' is permitted for no other pair.
C5_TravelerAssociation ==
    /\ \A R \in {"Flight", "Lodging", "CarRental", "RailJourney", "Cruise",
                 "GroundTransport", "Restaurant", "Activity"} :
          /\ dict_get(edge_type_map, <<"Traveler", R>>).found
          /\ dict_get(edge_type_map, <<"Traveler", R>>).value = <<"TRAVELER_ON">>
    /\ dict_get(edge_type_map, <<"Traveler", "Trip">>).found
    /\ dict_get(edge_type_map, <<"Traveler", "Trip">>).value = <<"INVITED_TO">>
    /\ ~Contains(edge_type_map[<<"Traveler", "Trip">>], "TRAVELER_ON")
    /\ \A k \in DOMAIN edge_type_map :
          Contains(edge_type_map[k], "INVITED_TO") => k = <<"Traveler", "Trip">>

\* a consumer has read ('Traveler', 'Trip') and got ['INVITED_TO']
C5_Witness ==
    /\ FoundPair(<<"Traveler", "Trip">>)
    /\ last.value = <<"INVITED_TO">>

\* C6: ('Flight', 'Airport'), ('RailJourney', 'Venue'), ('GroundTransport',
\* 'Venue') and ('CarRental', 'Venue') each yield exactly ['DEPARTS_FROM',
\* 'ARRIVES_AT'], ('Cruise', 'Venue') yields exactly ['DEPARTS_FROM',
\* 'ARRIVES_AT', 'PORT_OF_CALL'], and 'DEPARTS_FROM' and 'ARRIVES_AT' are
\* permitted for no other pair.
C6_TransitEndpoints ==
    LET two == {<<"Flight", "Airport">>, <<"RailJourney", "Venue">>,
                <<"GroundTransport", "Venue">>, <<"CarRental", "Venue">>}
        cruise == <<"Cruise", "Venue">>
    IN  /\ \A k \in two :
              /\ dict_get(edge_type_map, k).found
              /\ dict_get(edge_type_map, k).value = <<"DEPARTS_FROM", "ARRIVES_AT">>
        /\ dict_get(edge_type_map, cruise).found
        /\ dict_get(edge_type_map, cruise).value =
              <<"DEPARTS_FROM", "ARRIVES_AT", "PORT_OF_CALL">>
        /\ \A k \in DOMAIN edge_type_map :
              (\/ Contains(edge_type_map[k], "DEPARTS_FROM")
               \/ Contains(edge_type_map[k], "ARRIVES_AT"))
              => k \in two \cup {cruise}

\* a consumer has read ('Cruise', 'Venue') and got the three-name list
C6_Witness ==
    /\ FoundPair(<<"Cruise", "Venue">>)
    /\ last.value = <<"DEPARTS_FROM", "ARRIVES_AT", "PORT_OF_CALL">>

\* C7: every key of EDGE_TYPE_MAP whose list contains 'CONNECTS_TO' has equal
\* source and target, and those keys are exactly ('Flight', 'Flight'),
\* ('RailJourney', 'RailJourney') and ('GroundTransport', 'GroundTransport').
C7_ConnectsToSameType ==
    /\ \A k \in DOMAIN edge_type_map :
          Contains(edge_type_map[k], "CONNECTS_TO") => k[1] = k[2]
    /\ {k \in DOMAIN edge_type_map : Contains(edge_type_map[k], "CONNECTS_TO")}
          = {<<"Flight", "Flight">>, <<"RailJourney", "RailJourney">>,
             <<"GroundTransport", "GroundTransport">>}

\* a consumer has read a same-type pair and got a list with 'CONNECTS_TO'
C7_Witness ==
    /\ FoundPair(<<"RailJourney", "RailJourney">>)
    /\ Contains(last.value, "CONNECTS_TO")

\* C8: ENTITY_TYPES has exactly 16 keys and EDGE_TYPES has exactly 14 keys.
C8_TableSizes ==
    /\ Cardinality(DOMAIN entity_types) = 16
    /\ Cardinality(DOMAIN edge_types) = 14

\* both tables have been read, the last read finding the last EDGE_TYPES item
C8_Witness ==
    /\ last.table = "EDGE_TYPES"
    /\ last.key = "INVITED_TO"
    /\ last.found
    /\ \A c \in Consumers : lookups[c] > 0

\* the keyword arguments of the instantiation are of the declared types
InputWellTyped ==
    LET cls == Classes[Table(input.table)[input.name]] IN
    /\ DOMAIN input.kwargs \subseteq DOMAIN cls
    /\ \A a \in DOMAIN input.kwargs : input.kwargs[a].type = cls[a].type

\* C9: in every shape of ENTITY_TYPES and EDGE_TYPES every declared attribute
\* is optional with None as its default, so an instance that sets any subset
\* of the shape's attributes (the empty subset included) is valid, and the
\* attributes it leaves out are None.
C9_AttributesOptional ==
    /\ \A t \in {"ENTITY_TYPES", "EDGE_TYPES"} :
          \A n \in DOMAIN Table(t) :
              \A a \in DOMAIN Classes[Table(t)[n]] :
                  LET decl == Classes[Table(t)[n]][a] IN
                  /\ ~decl.field.required
                  /\ decl.field.default = None
                  /\ decl.nullable
    /\ (instance.cls # "none" /\ InputWellTyped) =>
          /\ instance.ok
          /\ \A a \in DOMAIN instance.values :
                instance.values[a] =
                    IF a \in DOMAIN input.kwargs THEN input.kwargs[a] ELSE None

\* a Flight has been instantiated with three of its eleven attributes set
C9_Witness ==
    /\ instance.cls = "Flight"
    /\ instance.ok
    /\ Cardinality(DOMAIN input.kwargs) = 3
    /\ instance.values["flight_number"] = None

\* C10: under any interleaving of lookups by the consumers the three tables
\* stay equal to the values the module gave them, and every lookup returns
\* what the table held for that key when the module was loaded.
C10_TablesImmutable ==
    /\ entity_types = ENTITY_TYPES
    /\ edge_types = EDGE_TYPES
    /\ edge_type_map = EDGE_TYPE_MAP
    /\ last.table # "none" =>
          LET initial == CASE last.table = "ENTITY_TYPES" -> ENTITY_TYPES
                           [] last.table = "EDGE_TYPES" -> EDGE_TYPES
                           [] OTHER -> EDGE_TYPE_MAP
          IN  /\ last.found = (last.key \in DOMAIN initial)
              /\ last.found => last.value = initial[last.key]

\* every consumer has read, and the last read asked for an absent pair
C10_Witness ==
    /\ \A c \in Consumers : lookups[c] > 0
    /\ last.table = "EDGE_TYPE_MAP"
    /\ ~last.found
    /\ last.key \notin DOMAIN edge_type_map

\* C11: every key of EDGE_TYPE_MAP maps to a non-empty list of
\* relationship-type names.
C11_ListsNonEmpty ==
    \A k \in DOMAIN edge_type_map :
        /\ Len(edge_type_map[k]) >= 1
        /\ DOMAIN edge_type_map[k] = 1..Len(edge_type_map[k])

\* a consumer has read ('Trip', 'City') and got a list that is not empty
C11_Witness ==
    /\ FoundPair(<<"Trip", "City">>)
    /\ Len(last.value) >= 1

\* C12: the wildcard 'Entity' is the target of some keys of EDGE_TYPE_MAP and
\* the source of none; every key whose target is 'Entity' maps to exactly
\* ['BOOKED_WITH']; and no key whose target is a declared entity type lists
\* 'BOOKED_WITH'.
C12_WildcardTargetOnly ==
    /\ \E k \in DOMAIN edge_type_map : k[2] = "Entity"
    /\ \A k \in DOMAIN edge_type_map :
          /\ k[1] # "Entity"
          /\ k[2] = "Entity" => edge_type_map[k] = <<"BOOKED_WITH">>
          /\ k[2] \in DOMAIN entity_types =>
                ~Contains(edge_type_map[k], "BOOKED_WITH")

\* a consumer has read ('Lodging', 'Entity') and got ['BOOKED_WITH'], and
\* the reversed pair is absent
C12_Witness ==
    /\ FoundPair(<<"Lodging", "Entity">>)
    /\ last.value = <<"BOOKED_WITH">>
    /\ ~dict_get(edge_type_map, <<"Entity", "Lodging">>).found

=============================================================================
